---------------------------- MODULE Spec2Model ----------------------------
(***************************************************************************)
(* Model of vs/editor/common/services/modelServiceImpl.ts:                 *)
(*   - the diff engine ModelServiceImpl._computeEdits with _commonPrefix   *)
(*     and _commonSuffix (specification SpecDiff);                         *)
(*   - the per-document semantic token scheduler ModelSemanticColoring     *)
(*     (specification Spec);                                               *)
(*   - ModelServiceImpl.updateModel (specification SpecUpdate);            *)
(*   - the model registry of ModelServiceImpl with the watchers of         *)
(*     SemanticColoringFeature (specification SpecRegistry);               *)
(*   - the token decoding and reconciliation of                            *)
(*     ModelSemanticColoring._setSemanticTokens (specification SpecDecode);*)
(* and of EditorCommand.runCommand of vs/editor/browser/editorExtensions.ts*)
(* (specification SpecCommand).                                            *)
(***************************************************************************)
EXTENDS Integers, Sequences, FiniteSets, TLC

VARIABLES
    \* ---- diff engine (SpecDiff) ----
    model,          \* the ITextModel handed to _computeEdits: [lines]
    textBuffer,     \* the ITextBuffer handed to _computeEdits: [lines, eol]
    edits,          \* the value returned by _computeEdits
    applied,        \* the lines of the model after the returned edits are applied
    dpc,            \* position of the diff run: "start", "computed", "applied"
    \* ---- ModelSemanticColoring (Spec) ----
    _isDisposed,
    _fetchSemanticTokens,   \* RunOnceScheduler: -1 = no timer, else time left
    _currentResponse,       \* "null" or "tokens": the response object owned
    _currentRequestCancellationTokenSource,  \* "null", or the source of a request
    listeners,      \* the listeners registered with this._register still subscribed
    requests,       \* provider calls whose promise has not settled yet
    provider,       \* TRUE iff SemanticColoringProviderRegistry.ordered(model) is not empty
    versionId,      \* number of content changes of the document so far
    semanticTokens, \* what the document holds: last argument of model.setSemanticTokens
    sinceTrigger,   \* time elapsed since the most recent trigger
    armedBy,        \* which schedule() call armed the timer last
    burst,          \* triggers coalesced into the armed timer (saturating)
    owed,           \* a trigger fired during a provider call and no call started since
    last,           \* the last step taken and what it did
    released,       \* how often each response no longer referenced was disposed
    \* ---- ModelServiceImpl.updateModel on one document (SpecUpdate) ----
    doc,            \* the ITextModel: [lines, eol]
    defaultEOL,     \* options.defaultEOL of the document's creation options
    ulast,          \* the last operation on the document and what it did
    \* ---- the model registry (SpecRegistry) ----
    _models,        \* modelId -> the registered model: [id, language]
    _modelCreationOptionsByLanguageAndResource,  \* cache key -> configuration read
    configuration,  \* how often the configuration has changed
    _watchers,      \* SemanticColoringFeature: the resources with a watcher
    created,        \* number of TextModel objects constructed so far
    rlast,          \* the last registry operation and what it did
    \* ---- _setSemanticTokens with a response (SpecDecode) ----
    legend,         \* SemanticColoringLegend: [tokenTypes, tokenModifiers]
    theme,          \* the current theme: which styles it resolves
    srcAreas,       \* tokens.areas: sequence of [line, data]
    changesSeen,    \* pendingChanges: the change events seen during the fetch
    out,            \* what the call did: result, resolver calls, call log
    \* ---- EditorCommand.runCommand (SpecCommand) ----
    focusedCodeEditor,  \* codeEditorService.getFocusedCodeEditor(): 0 = null
    activeCodeEditor,   \* codeEditorService.getActiveCodeEditor(): 0 = null
    contextMatches,     \* per editor: contextMatchesRules(precondition) there
    clast               \* the last runCommand call and what it did

diffVars == <<model, textBuffer, edits, applied, dpc>>
colVars == <<_isDisposed, _fetchSemanticTokens, _currentResponse,
             _currentRequestCancellationTokenSource, listeners, requests,
             provider, versionId, semanticTokens, sinceTrigger, armedBy,
             burst, owed, last, released>>
updVars == <<doc, defaultEOL, ulast>>
regVars == <<_models, _modelCreationOptionsByLanguageAndResource, configuration,
             _watchers, created, rlast>>
decVars == <<legend, theme, srcAreas, changesSeen, out>>
cmdVars == <<focusedCodeEditor, activeCodeEditor, contextMatches, clast>>
vars == <<diffVars, colVars, updVars, regVars, decVars, cmdVars>>

\* what the steps of one specification leave alone
offDiff == <<colVars, updVars, regVars, decVars, cmdVars>>
offColoring == <<diffVars, updVars, regVars, decVars, cmdVars>>
offUpdate == <<diffVars, colVars, regVars, decVars, cmdVars>>
offRegistry == <<diffVars, colVars, updVars, decVars, cmdVars>>
offDecode == <<diffVars, colVars, updVars, regVars, cmdVars>>
offCommand == <<diffVars, colVars, updVars, regVars, decVars>>

\* no diff run is under observation
DiffIdle ==
    /\ model = [lines |-> << <<>> >>]
    /\ textBuffer = [lines |-> << <<>> >>, eol |-> "\n"]
    /\ edits = <<>>
    /\ applied = <<>>
    /\ dpc = "start"

\* no updateModel run is under observation
UpdateIdle ==
    /\ doc = [lines |-> << <<>> >>, eol |-> "\n"]
    /\ defaultEOL = "\n"
    /\ ulast = [op |-> "init"]

\* no registry is under observation
RegistryIdle ==
    /\ _models = <<>>
    /\ _modelCreationOptionsByLanguageAndResource = <<>>
    /\ configuration = 0
    /\ _watchers = {}
    /\ created = 0
    /\ rlast = [op |-> "init"]

\* no response is being decoded
DecodeIdle ==
    /\ legend = [tokenTypes |-> <<>>, tokenModifiers |-> <<>>]
    /\ theme = [styles |-> <<>>, hidden |-> ""]
    /\ srcAreas = <<>>
    /\ changesSeen = <<>>
    /\ out = [step |-> "idle"]

\* no command is under observation
CommandIdle ==
    /\ focusedCodeEditor = 0
    /\ activeCodeEditor = 0
    /\ contextMatches = <<>>
    /\ clast = [op |-> "init"]

Min(a, b) == IF a < b THEN a ELSE b

(***************************************************************************)
(* Bounds of the diff engine's inputs.                                     *)
(***************************************************************************)
MaxLines == 3

\* The line contents the inputs are drawn from: lengths 0, 1 and 2.
LineValues == { <<>>, <<"a">>, <<"a", "b">> }

LineSeqs == UNION { [1..n -> LineValues] : n \in 1..MaxLines }

EOLs == { "\n", "\r\n" }

(***************************************************************************)
(* The text model / text buffer operations _computeEdits relies on.        *)
(***************************************************************************)
getLineCount(m) == Len(m.lines)

getLineContent(m, lineNumber) == m.lines[lineNumber]

getLineLength(m, lineNumber) == Len(m.lines[lineNumber])

getLineMaxColumn(m, lineNumber) == Len(m.lines[lineNumber]) + 1

Range(startLineNumber, startColumn, endLineNumber, endColumn) ==
    [startLineNumber |-> startLineNumber, startColumn |-> startColumn,
     endLineNumber |-> endLineNumber, endColumn |-> endColumn]

RECURSIVE WholeLines(_, _, _)
\* lines from..to of b, each followed by the buffer's end of line
WholeLines(b, from, to) ==
    IF from > to THEN <<>>
    ELSE b.lines[from] \o <<b.eol>> \o WholeLines(b, from + 1, to)

\* textBuffer.getValueInRange(range, EndOfLinePreference.TextDefined)
getValueInRange(b, range) ==
    IF range.startLineNumber = range.endLineNumber
    THEN SubSeq(b.lines[range.startLineNumber], range.startColumn, range.endColumn - 1)
    ELSE SubSeq(b.lines[range.startLineNumber], range.startColumn,
                Len(b.lines[range.startLineNumber]))
         \o <<b.eol>>
         \o WholeLines(b, range.startLineNumber + 1, range.endLineNumber - 1)
         \o SubSeq(b.lines[range.endLineNumber], 1, range.endColumn - 1)

\* EditOperation.replaceMove(range, text)
replaceMove(range, text) == [range |-> range, text |-> text, forceMoveMarkers |-> TRUE]

RECURSIVE SplitLines(_)
\* the lines of a text: split at every end-of-line sequence
SplitLines(text) ==
    IF \A i \in 1..Len(text) : text[i] \notin EOLs THEN <<text>>
    ELSE LET k == CHOOSE i \in 1..Len(text) :
                      text[i] \in EOLs /\ \A j \in 1..(i - 1) : text[j] \notin EOLs
         IN  <<SubSeq(text, 1, k - 1)>> \o SplitLines(SubSeq(text, k + 1, Len(text)))

\* the lines after one edit operation: op.range of the old lines replaced by op.text
ApplyEdit(lines, op) ==
    LET r == op.range
        head == SubSeq(lines[r.startLineNumber], 1, r.startColumn - 1)
        tail == SubSeq(lines[r.endLineNumber], r.endColumn, Len(lines[r.endLineNumber]))
        t == SplitLines(op.text)
        n == Len(t)
        mid == [i \in 1..n |->
                   (IF i = 1 THEN head ELSE <<>>) \o t[i] \o (IF i = n THEN tail ELSE <<>>)]
    IN  SubSeq(lines, 1, r.startLineNumber - 1) \o mid
        \o SubSeq(lines, r.endLineNumber + 1, Len(lines))

RECURSIVE ApplyEdits(_, _)
ApplyEdits(lines, ops) ==
    IF ops = <<>> THEN lines ELSE ApplyEdits(ApplyEdit(lines, Head(ops)), Tail(ops))

(***************************************************************************)
(* ModelServiceImpl._commonPrefix, _commonSuffix, _computeEdits            *)
(***************************************************************************)
RECURSIVE PrefixLoop(_, _, _, _, _, _)
PrefixLoop(a, aDelta, b, bDelta, maxResult, i) ==
    IF i < maxResult /\ getLineContent(a, aDelta + i) = getLineContent(b, bDelta + i)
    THEN PrefixLoop(a, aDelta, b, bDelta, maxResult, i + 1)
    ELSE i

_commonPrefix(a, aLen, aDelta, b, bLen, bDelta) ==
    PrefixLoop(a, aDelta, b, bDelta, Min(aLen, bLen), 0)

RECURSIVE SuffixLoop(_, _, _, _, _, _, _, _)
SuffixLoop(a, aLen, aDelta, b, bLen, bDelta, maxResult, i) ==
    IF i < maxResult
       /\ getLineContent(a, aDelta + aLen - i) = getLineContent(b, bDelta + bLen - i)
    THEN SuffixLoop(a, aLen, aDelta, b, bLen, bDelta, maxResult, i + 1)
    ELSE i

_commonSuffix(a, aLen, aDelta, b, bLen, bDelta) ==
    SuffixLoop(a, aLen, aDelta, b, bLen, bDelta, Min(aLen, bLen), 0)

\* mutant: the line counts are not compared
isEqualityCase_prefixOnly(modelLineCount, textBufferLineCount, commonPrefix) ==
    commonPrefix = modelLineCount

\* the "equality case" test of _computeEdits
isEqualityCase(modelLineCount, textBufferLineCount, commonPrefix) ==
    modelLineCount = textBufferLineCount /\ commonPrefix = modelLineCount

\* mutant: the ranges run from their end to their start
suffixRanges_reversed(commonPrefix, commonSuffix, modelLineCount, textBufferLineCount) ==
    [oldRange |-> Range(modelLineCount - commonSuffix + 1, 1, commonPrefix + 1, 1),
     newRange |-> Range(commonPrefix + 1, 1, textBufferLineCount - commonSuffix + 1, 1)]

\* mutant: the common suffix is not taken off the end of the ranges
suffixRanges_suffixKept(commonPrefix, commonSuffix, modelLineCount, textBufferLineCount) ==
    [oldRange |-> Range(commonPrefix + 1, 1, modelLineCount, 1),
     newRange |-> Range(commonPrefix + 1, 1, textBufferLineCount, 1)]

\* the ranges of _computeEdits when commonSuffix > 0
suffixRanges(commonPrefix, commonSuffix, modelLineCount, textBufferLineCount) ==
    [oldRange |-> Range(commonPrefix + 1, 1, modelLineCount - commonSuffix + 1, 1),
     newRange |-> Range(commonPrefix + 1, 1, textBufferLineCount - commonSuffix + 1, 1)]

\* mutant: the new range starts at the first column of the last common line
prefixRanges_fromLineStart(m, b, commonPrefix) ==
    [oldRange |-> Range(commonPrefix, getLineMaxColumn(m, commonPrefix),
                        getLineCount(m), getLineMaxColumn(m, getLineCount(m))),
     newRange |-> Range(commonPrefix, 1,
                        getLineCount(b), 1 + getLineLength(b, getLineCount(b)))]

\* the ranges of _computeEdits when commonSuffix = 0 and commonPrefix > 0
prefixRanges(m, b, commonPrefix) ==
    [oldRange |-> Range(commonPrefix, getLineMaxColumn(m, commonPrefix),
                        getLineCount(m), getLineMaxColumn(m, getLineCount(m))),
     newRange |-> Range(commonPrefix, 1 + getLineLength(b, commonPrefix),
                        getLineCount(b), 1 + getLineLength(b, getLineCount(b)))]

\* mutant: the old range stops at the start of the model's last line
fullRanges_toLastLineStart(m, b) ==
    [oldRange |-> Range(1, 1, getLineCount(m), 1),
     newRange |-> Range(1, 1, getLineCount(b), 1 + getLineLength(b, getLineCount(b)))]

\* the ranges of _computeEdits when commonSuffix = 0 and commonPrefix = 0
fullRanges(m, b) ==
    [oldRange |-> Range(1, 1, getLineCount(m), getLineMaxColumn(m, getLineCount(m))),
     newRange |-> Range(1, 1, getLineCount(b), 1 + getLineLength(b, getLineCount(b)))]

\* the value of commonPrefix in _computeEdits
prefixOf(m, b) == _commonPrefix(m, getLineCount(m), 1, b, getLineCount(b), 1)

\* the value of commonSuffix in _computeEdits
suffixOf(m, b) ==
    LET commonPrefix == prefixOf(m, b)
    IN  _commonSuffix(m, getLineCount(m) - commonPrefix, commonPrefix,
                      b, getLineCount(b) - commonPrefix, commonPrefix)

\* oldRange and newRange of _computeEdits
rangesOf(m, b) ==
    LET modelLineCount == getLineCount(m)
        textBufferLineCount == getLineCount(b)
        commonPrefix == prefixOf(m, b)
        commonSuffix == suffixOf(m, b)
    IN  IF commonSuffix > 0
        THEN suffixRanges(commonPrefix, commonSuffix, modelLineCount, textBufferLineCount)
        ELSE IF commonPrefix > 0
        THEN prefixRanges(m, b, commonPrefix)
        ELSE fullRanges(m, b)

_computeEdits(m, b) ==
    IF isEqualityCase(getLineCount(m), getLineCount(b), prefixOf(m, b))
    THEN <<>>
    ELSE LET r == rangesOf(m, b)
         IN  <<replaceMove(r.oldRange, getValueInRange(b, r.newRange))>>


(***************************************************************************)
(* ModelSemanticColoring: the per-document scheduler of semantic token     *)
(* requests.  Time is counted in the unit of the RunOnceScheduler delay.   *)
(***************************************************************************)
\* new RunOnceScheduler(() => this._fetchSemanticTokensNow(), 500)
DebounceDelay == 500

\* this._fetchSemanticTokens.schedule(0) in the constructor
constructorDelay == 0

\* content changes of the document that are explored
MaxChanges == 3

\* the count of coalesced triggers saturates here
MaxBurst == 2

\* the amounts by which time advances in one step
TickSteps == { DebounceDelay \div 2, DebounceDelay }

\* sinceTrigger saturates here: "more than one debounce window ago"
LongAgo == DebounceDelay + DebounceDelay \div 2

\* the listeners the constructor registers with this._register
AllListeners == { "onDidChangeContent", "onDidChange", "onThemeChange" }

NoTokens == [kind |-> "unset", from |-> -1, adjusted |-> <<>>]

NoResponse == [kind |-> "null", from |-> -1, disposals |-> 0]

Quiet == [step |-> "init", started |-> FALSE, handled |-> <<>>, from |-> -1,
          reported |-> FALSE, burst |-> 0, again |-> FALSE, cancelCalls |-> 0,
          disposeCalls |-> 0, res |-> "none"]

\* RunOnceScheduler.schedule(delay): any armed timer is replaced by a new one
schedule(delay) == delay

\* mutant: the trigger listeners schedule like the constructor does
triggerDelay_asConstructor == constructorDelay

\* the delay of this._fetchSemanticTokens.schedule() in the three trigger listeners
triggerDelay == DebounceDelay

\* mutant: a running request does not stop a new one
requestRunning_ignored == FALSE

\* if (this._currentRequestCancellationTokenSource) { return; }
requestRunning == _currentRequestCancellationTokenSource # 0

\* mutant: only the first change of a request is kept
push_onlyFirst(pendingChanges, e) == IF pendingChanges = <<>> THEN <<e>> ELSE pendingChanges

\* pendingChanges.push(e)
push(pendingChanges, e) == Append(pendingChanges, e)

\* mutant: a timer that comes due during a request cancels the request
letItFinish_cancelled(reqs) == [i \in 1..Len(reqs) |-> [reqs[i] EXCEPT !.cancels = @ + 1]]

\* "there is already a request running, let it finish...": the requests after
\* the early return of _fetchSemanticTokensNow
letItFinish(reqs) == reqs

\* the contentChangeListener of a request stays subscribed until a handler of
\* its promise disposes it: one per unsettled request
contentChangeListeners == Len(requests)

\* the identity of a new CancellationTokenSource
NewSource == CHOOSE n \in 1..(Len(requests) + 1) :
                 \A i \in 1..Len(requests) : requests[i].id # n

RemoveAt(seq, i) == SubSeq(seq, 1, i - 1) \o SubSeq(seq, i + 1, Len(seq))

\* the state of a ModelSemanticColoring the diff engine runs beside
ColoringIdle ==
    /\ _isDisposed = FALSE
    /\ _fetchSemanticTokens = -1
    /\ _currentResponse = NoResponse
    /\ _currentRequestCancellationTokenSource = 0
    /\ listeners = {}
    /\ requests = <<>>
    /\ provider = FALSE
    /\ versionId = 0
    /\ semanticTokens = NoTokens
    /\ sinceTrigger = LongAgo
    /\ armedBy = "none"
    /\ burst = 0
    /\ owed = FALSE
    /\ last = Quiet
    /\ released = {}

\* the state the constructor of ModelSemanticColoring leaves
Init ==
    /\ _isDisposed = FALSE
    /\ _fetchSemanticTokens = schedule(constructorDelay)
    /\ _currentResponse = NoResponse
    /\ _currentRequestCancellationTokenSource = 0
    /\ listeners = AllListeners
    /\ requests = <<>>
    /\ provider \in BOOLEAN
    /\ versionId = 0
    /\ semanticTokens = NoTokens
    /\ sinceTrigger = LongAgo
    /\ armedBy = "constructor"
    /\ burst = 0
    /\ owed = FALSE
    /\ last = Quiet
    /\ released = {}
    /\ DiffIdle
    /\ UpdateIdle
    /\ RegistryIdle
    /\ DecodeIdle
    /\ CommandIdle

\* e => this._fetchSemanticTokens.schedule(), run by a listener of the constructor
Trigger(listener) ==
    IF listener \in listeners
    THEN /\ _fetchSemanticTokens' = schedule(triggerDelay)
         /\ armedBy' = "trigger"
         /\ burst' = Min(burst + 1, MaxBurst)
         /\ sinceTrigger' = 0
         /\ owed' = (owed \/ _currentRequestCancellationTokenSource # 0)
    ELSE UNCHANGED <<_fetchSemanticTokens, armedBy, burst, sinceTrigger, owed>>

\* the document fires onDidChangeContent: the trigger listener of the
\* constructor and the contentChangeListener of every unsettled request run
OnDidChangeContent ==
    /\ versionId < MaxChanges
    /\ versionId' = versionId + 1
    /\ requests' = [i \in 1..Len(requests) |->
                       [requests[i] EXCEPT !.pendingChanges = push(@, versionId + 1)]]
    /\ Trigger("onDidChangeContent")
    /\ last' = [Quiet EXCEPT !.step = "change"]
    /\ UNCHANGED <<released, _isDisposed, _currentResponse, _currentRequestCancellationTokenSource,
                   listeners, provider, semanticTokens, offColoring>>

\* SemanticColoringProviderRegistry fires onDidChange
OnProviderChange ==
    /\ \E p \in BOOLEAN : provider' = p
    /\ Trigger("onDidChange")
    /\ last' = [Quiet EXCEPT !.step = "provider"]
    /\ UNCHANGED <<released, _isDisposed, _currentResponse, _currentRequestCancellationTokenSource,
                   listeners, requests, versionId, semanticTokens, offColoring>>

\* the theme service fires onThemeChange
OnThemeChange ==
    /\ "onThemeChange" \in listeners
    /\ Trigger("onThemeChange")
    /\ last' = [Quiet EXCEPT !.step = "theme"]
    /\ UNCHANGED <<released, _isDisposed, _currentResponse, _currentRequestCancellationTokenSource,
                   listeners, requests, provider, versionId, semanticTokens, offColoring>>

\* time passes, never beyond the moment the armed timer is due
Tick ==
    /\ \E d \in TickSteps :
          /\ _fetchSemanticTokens = -1 \/ d <= _fetchSemanticTokens
          /\ _fetchSemanticTokens' =
                 IF _fetchSemanticTokens = -1 THEN -1 ELSE _fetchSemanticTokens - d
          /\ sinceTrigger' = Min(sinceTrigger + d, LongAgo)
    /\ _fetchSemanticTokens > 0 \/ sinceTrigger < LongAgo
    /\ last' = [Quiet EXCEPT !.step = "tick"]
    /\ UNCHANGED <<released, _isDisposed, _currentResponse, _currentRequestCancellationTokenSource,
                   listeners, requests, provider, versionId, semanticTokens, armedBy,
                   burst, owed, offColoring>>

\* mutant: a provider is found whether or not one is registered
_getSemanticColoringProvider_any == TRUE

\* _getSemanticColoringProvider() returns a provider: the registry's ordered
\* list for the model is not empty
_getSemanticColoringProvider == provider

\* the timer of the RunOnceScheduler is due: _fetchSemanticTokensNow()
FetchSemanticTokensNow ==
    /\ _fetchSemanticTokens = 0
    /\ _fetchSemanticTokens' = -1
    /\ armedBy' = "none"
    /\ burst' = 0
    /\ IF requestRunning
       THEN /\ last' = [Quiet EXCEPT !.step = "fire", !.burst = burst]
            /\ requests' = letItFinish(requests)
            /\ UNCHANGED <<_currentRequestCancellationTokenSource, owed>>
       ELSE IF ~_getSemanticColoringProvider
       THEN /\ last' = [Quiet EXCEPT !.step = "fire", !.burst = burst]
            /\ owed' = FALSE
            /\ UNCHANGED <<_currentRequestCancellationTokenSource, requests>>
       ELSE /\ _currentRequestCancellationTokenSource' = NewSource
            /\ requests' = Append(requests,
                                  [id |-> NewSource, startVersion |-> versionId,
                                   pendingChanges |-> <<>>, cancels |-> 0])
            /\ owed' = FALSE
            /\ last' = [Quiet EXCEPT !.step = "fire", !.started = TRUE, !.burst = burst]
    /\ UNCHANGED <<released, _isDisposed, _currentResponse, listeners, provider, versionId,
                   semanticTokens, sinceTrigger, offColoring>>

\* mutant: the response is decoded and reconciled on a disposed scheduler too
reschedules_whenDisposed(tokens, pendingChanges) ==
    tokens = "tokens" /\ Len(pendingChanges) > 0

\* _setSemanticTokens goes on to "Adjust incoming semantic tokens" and schedules
reschedules(tokens, pendingChanges) ==
    ~_isDisposed /\ tokens = "tokens" /\ Len(pendingChanges) > 0

\* mutant: an empty response leaves the tokens of the document alone
tokensOnEmpty_kept(r) == semanticTokens

\* this._model.setSemanticTokens(null)
tokensOnEmpty(r) == [kind |-> "null", from |-> r.startVersion, adjusted |-> <<>>]

\* a settled promise runs its handler: the source is cleared, the
\* contentChangeListener is disposed and _setSemanticTokens(tokens, legend,
\* pendingChanges) runs
Settle(i, step, tokens, reported, sourceAfter) ==
    LET r == requests[i]
        pendingChanges == r.pendingChanges
    IN  /\ _currentRequestCancellationTokenSource' = sourceAfter
        /\ requests' = RemoveAt(requests, i)
        /\ _currentResponse' =
               IF ~_isDisposed /\ tokens = "tokens"
               THEN [kind |-> "tokens", from |-> r.startVersion, disposals |-> 0]
               ELSE NoResponse
        /\ semanticTokens' =
               IF _isDisposed THEN semanticTokens
               ELSE IF tokens = "null"
               THEN tokensOnEmpty(r)
               ELSE [kind |-> "tokens", from |-> r.startVersion,
                     adjusted |-> pendingChanges]
        /\ IF reschedules(tokens, pendingChanges)
           THEN /\ _fetchSemanticTokens' = schedule(DebounceDelay)
                /\ armedBy' = "response"
           ELSE UNCHANGED <<_fetchSemanticTokens, armedBy>>
        /\ last' = [Quiet EXCEPT !.step = step, !.handled = pendingChanges,
                                  !.from = r.startVersion, !.reported = reported,
                                  !.res = tokens,
                                  !.disposeCalls =
                                      (IF _currentResponse.kind = "tokens" THEN 1 ELSE 0)
                                      + (IF _isDisposed /\ tokens = "tokens" THEN 1 ELSE 0)]
        /\ released' = released
               \cup (IF _currentResponse.kind = "tokens"
                     THEN {_currentResponse.disposals + 1} ELSE {})
               \cup (IF _isDisposed /\ tokens = "tokens" THEN {1} ELSE {})
        /\ UNCHANGED <<_isDisposed, listeners, provider, versionId, sinceTrigger,
                       burst, owed, offColoring>>

\* request.then((res) => { ... this._setSemanticTokens(res || null, ...) })
Resolve ==
    \E i \in 1..Len(requests) : \E res \in {"tokens", "null"} :
        Settle(i, "resolve", res, FALSE, 0)

\* mutant: the rejection handler leaves the cancellation token source in place
Reject_keepsSource ==
    \E i \in 1..Len(requests) :
        Settle(i, "reject", "null", TRUE, _currentRequestCancellationTokenSource)

\* request.then(..., (err) => { errors.onUnexpectedError(err); ... })
Reject ==
    \E i \in 1..Len(requests) : Settle(i, "reject", "null", TRUE, 0)

\* mutant: dispose() cancels the source and keeps the reference to it
sourceAfterDispose_kept == _currentRequestCancellationTokenSource

\* this._currentRequestCancellationTokenSource = null, in dispose()
sourceAfterDispose == 0

\* mutant: dispose() disposes the response and keeps the reference to it
disposeResponse_kept(response) ==
    IF response.kind = "tokens"
    THEN [response EXCEPT !.disposals = @ + 1]
    ELSE response

\* if (this._currentResponse) { this._currentResponse.dispose();
\* this._currentResponse = null; }: the value of _currentResponse afterwards
disposeResponse(response) == NoResponse

\* ModelSemanticColoring.dispose()
Dispose ==
    /\ _isDisposed' = TRUE
    /\ _currentResponse' = disposeResponse(_currentResponse)
    /\ requests' = [i \in 1..Len(requests) |->
                       IF requests[i].id = _currentRequestCancellationTokenSource
                       THEN [requests[i] EXCEPT !.cancels = @ + 1]
                       ELSE requests[i]]
    /\ _currentRequestCancellationTokenSource' = sourceAfterDispose
    /\ listeners' = {}
    /\ _fetchSemanticTokens' = -1
    /\ armedBy' = "none"
    /\ burst' = 0
    /\ last' = [Quiet EXCEPT
                   !.step = "dispose",
                   !.again = _isDisposed,
                   !.cancelCalls =
                       IF _currentRequestCancellationTokenSource # 0 THEN 1 ELSE 0,
                   !.disposeCalls = IF _currentResponse.kind = "tokens" THEN 1 ELSE 0]
    /\ released' = released
           \cup (IF /\ _currentResponse.kind = "tokens"
                    /\ disposeResponse(_currentResponse).kind # "tokens"
                 THEN {_currentResponse.disposals + 1} ELSE {})
    /\ UNCHANGED <<provider, versionId, semanticTokens, sinceTrigger, owed, offColoring>>

Next ==
    \/ OnDidChangeContent
    \/ OnProviderChange
    \/ OnThemeChange
    \/ Tick
    \/ FetchSemanticTokensNow
    \/ Resolve
    \/ Reject
    \/ Dispose

Spec == Init /\ [][Next]_vars

(***************************************************************************)
(* Properties of the scheduler (checked under Spec)                        *)
(***************************************************************************)
Settled == last.step \in {"resolve", "reject"}

\* no timer, no request, not disposed
Idle ==
    /\ ~_isDisposed
    /\ _fetchSemanticTokens = -1
    /\ _currentRequestCancellationTokenSource = 0
    /\ requests = <<>>

\* C4: after any sequence of triggers, debounce expirations and provider
\* responses, at most one provider call of the document is outstanding.
C4_AtMostOneOutstanding == Len(requests) <= 1

\* C4 witness: the timer came due during a running request and started nothing
C4_Witness ==
    /\ last.step = "fire"
    /\ ~last.started
    /\ Len(requests) = 1
    /\ _currentRequestCancellationTokenSource # 0

\* C5 as claimed: a trigger that fires during a provider call starts no
\* second call, and a follow-up invocation is owed to it: once the call has
\* completed, the follow-up fetch is scheduled until it runs.
C5_FollowUpOwed ==
    /\ Len(requests) <= 1
    /\ (owed /\ ~_isDisposed /\ _currentRequestCancellationTokenSource = 0)
           => _fetchSemanticTokens >= 0

\* C6: with no request in flight and a provider registered, triggers that
\* each come less than one debounce window after the previous one lead to
\* exactly one provider invocation, one window after the most recent one.
C6_Debounce ==
    [][ /\ (Len(requests') > Len(requests)) =>
              /\ Len(requests') = Len(requests) + 1
              /\ _fetchSemanticTokens = 0
              /\ (armedBy = "trigger" => sinceTrigger = DebounceDelay)
        /\ (armedBy = "trigger" /\ _fetchSemanticTokens >= 0) =>
              _fetchSemanticTokens + sinceTrigger = DebounceDelay
        /\ (/\ armedBy = "trigger"
            /\ _fetchSemanticTokens = 0 /\ _fetchSemanticTokens' = -1
            /\ ~_isDisposed'
            /\ requests = <<>> /\ provider) => Len(requests') = 1
      ]_vars

\* C6 witness: two or more coalesced triggers were followed by one invocation
C6_Witness ==
    /\ last.step = "fire"
    /\ last.started
    /\ last.burst >= 2
    /\ Len(requests) = 1
    /\ sinceTrigger = DebounceDelay

\* C7 as claimed: after every provider response (tokens, nothing, or a
\* rejection) during whose request a content change was accumulated, a
\* fetch is scheduled instead of the scheduler settling to idle.
C7_RearmsOnPendingChanges ==
    (Settled /\ ~_isDisposed /\ last.handled # <<>>) => _fetchSemanticTokens >= 0

\* C8 as claimed: once the scheduler is idle (with a provider registered),
\* the tokens of the document were written from a request that started
\* after the last content change.
C8_FreshWhenIdle ==
    (Idle /\ provider) =>
        (semanticTokens.kind # "unset" /\ semanticTokens.from = versionId)

\* C9 as claimed: a rejection is reported, clears the cancellation token
\* source, releases the accumulating listener, sets the tokens of the
\* document to none, and leaves the scheduler able to start a new call.
C9_Original ==
    last.step = "reject" =>
        /\ last.reported
        /\ _currentRequestCancellationTokenSource = 0
        /\ requests = <<>>
        /\ _currentResponse = NoResponse
        /\ semanticTokens.kind = "null"
        /\ listeners = AllListeners

\* C9 amended: a rejection is reported, clears the cancellation token
\* source, releases the accumulating listener and drops the stored
\* response; if the scheduler has not been disposed, the tokens of the
\* document are set to none and a later trigger can start a new call.
C9_RejectedLikeEmpty ==
    last.step = "reject" =>
        /\ last.reported
        /\ _currentRequestCancellationTokenSource = 0
        /\ requests = <<>>
        /\ _currentResponse = NoResponse
        /\ ~_isDisposed =>
              /\ semanticTokens.kind = "null"
              /\ semanticTokens.from = last.from
              /\ listeners = AllListeners
              /\ ~requestRunning

\* C9 witness: a rejection replaced the tokens of an earlier response by none
C9_Witness ==
    /\ last.step = "reject"
    /\ ~_isDisposed
    /\ semanticTokens.kind = "null"
    /\ semanticTokens.from > 0

\* C10: the changes handed to _setSemanticTokens are exactly the content
\* changes between the start of the request and the handling of its
\* response, each once and in the order they occurred.
C10_PendingChangesExact ==
    Settled => last.handled = [k \in 1..(versionId - last.from) |-> last.from + k]

\* C10 witness: a request that started after a change saw two changes
C10_Witness ==
    /\ Settled
    /\ last.from >= 1
    /\ Len(last.handled) = 2

\* C11: dispose() can be called in every state; it cancels an outstanding
\* provider call exactly once, and a repeated dispose() cancels nothing and
\* disposes no response a second time.
C11_DisposeSafe ==
    /\ ENABLED Dispose
    /\ \A i \in 1..Len(requests) :
           /\ requests[i].cancels <= 1
           /\ _isDisposed => requests[i].cancels = 1
    /\ _currentResponse.disposals = 0
    /\ (last.step = "dispose" /\ last.again) =>
           (last.cancelCalls = 0 /\ last.disposeCalls = 0)

\* C11 witness: dispose() ran again while the cancelled call was still unsettled
C11_Witness ==
    /\ last.step = "dispose"
    /\ last.again
    /\ Len(requests) = 1
    /\ requests[1].cancels = 1

\* C12 as claimed: after dispose() none of the listeners the scheduler
\* created is subscribed: the three trigger listeners, the debounce timer and
\* the content-change listener accumulating edits for a running request.
C12_AllListenersReleased ==
    _isDisposed =>
        /\ listeners = {}
        /\ _fetchSemanticTokens = -1
        /\ contentChangeListeners = 0

\* C13: a request is cancelled only by dispose(): no trigger, re-arming or
\* expiry of the debounce timer during the request cancels its token.
C13_CancelledOnlyByDispose ==
    [][ \A i \in 1..Len(requests) : \A j \in 1..Len(requests') :
            (requests[i].id = requests'[j].id
             /\ requests'[j].cancels > requests[i].cancels)
                => (last'.step = "dispose" /\ _isDisposed') ]_vars

\* C13 witness: triggers were coalesced and the timer came due during a
\* request, which is still not cancelled
C13_Witness ==
    /\ last.step = "fire"
    /\ last.burst >= 2
    /\ ~last.started
    /\ Len(requests) = 1
    /\ requests[1].cancels = 0
    /\ ~_isDisposed

\* C21 as claimed: when the provider returns no data, the stored response is
\* released and the tokens of the document are set to none.
C21_Original ==
    (last.step = "resolve" /\ last.res = "null") =>
        /\ _currentResponse = NoResponse
        /\ semanticTokens.kind = "null"
        /\ semanticTokens.from = last.from

\* C21 amended: when the provider returns no data the stored response is
\* released; if the scheduler has not been disposed, the tokens of the
\* document are set to none, so tokens of an earlier response do not remain.
C21_EmptyClearsTokens ==
    [][ (last'.step = "resolve" /\ last'.res = "null") =>
            /\ _currentResponse' = NoResponse
            /\ last'.disposeCalls = (IF _currentResponse.kind = "tokens" THEN 1 ELSE 0)
            /\ ~_isDisposed =>
                  /\ semanticTokens'.kind = "null"
                  /\ semanticTokens'.from = last'.from ]_vars

\* C21 witness: an empty response replaced the tokens of an earlier response
C21_Witness ==
    /\ last.step = "resolve"
    /\ last.res = "null"
    /\ last.disposeCalls = 1
    /\ ~_isDisposed
    /\ semanticTokens.kind = "null"

\* C25: when the timer comes due with no request running and no provider is
\* registered, no provider call is made, no cancellation token source is
\* created, no accumulating listener is attached and the tokens of the
\* document are not touched; with a provider registered a request starts.
C25_NoProviderStaysIdle ==
    [][ (last'.step = "fire" /\ ~requestRunning) =>
            IF provider
            THEN /\ last'.started
                 /\ Len(requests') = Len(requests) + 1
                 /\ _currentRequestCancellationTokenSource' # 0
            ELSE /\ ~last'.started
                 /\ requests' = requests
                 /\ _currentRequestCancellationTokenSource' = 0
                 /\ _fetchSemanticTokens' = -1
                 /\ semanticTokens' = semanticTokens
                 /\ _currentResponse' = _currentResponse ]_vars

\* C25 witness: the timer came due with no provider and nothing was started
C25_Witness ==
    /\ last.step = "fire"
    /\ ~last.started
    /\ ~provider
    /\ ~_isDisposed
    /\ requests = <<>>
    /\ _currentRequestCancellationTokenSource = 0
    /\ _fetchSemanticTokens = -1

\* C27: a response or rejection that arrives after dispose() is not written
\* to the document and schedules no fetch; a disposed scheduler has no timer.
C27_NothingAfterDispose ==
    [][ /\ _isDisposed => _fetchSemanticTokens = -1
        /\ (last'.step \in {"resolve", "reject"} /\ _isDisposed) =>
              /\ semanticTokens' = semanticTokens
              /\ _fetchSemanticTokens' = -1
              /\ _currentResponse' = NoResponse
              /\ Len(requests') < Len(requests)
              /\ _isDisposed' ]_vars

\* C27 witness: tokens arrived after dispose(), with changes accumulated
C27_Witness ==
    /\ last.step = "resolve"
    /\ last.res = "tokens"
    /\ last.handled # <<>>
    /\ _isDisposed
    /\ _fetchSemanticTokens = -1

\* C26: every response object is disposed exactly once: a response the
\* scheduler no longer references has been disposed once, the one it holds
\* has not been disposed, and a disposed scheduler holds none.
C26_DisposedExactlyOnce ==
    /\ released \subseteq {1}
    /\ _currentResponse.kind = "tokens" =>
          (_currentResponse.disposals = 0 /\ ~_isDisposed)

\* C26 witness: a response was replaced by the next one, which is now held
C26_Witness ==
    /\ last.step = "resolve"
    /\ last.res = "tokens"
    /\ last.disposeCalls = 1
    /\ released = {1}
    /\ _currentResponse.kind = "tokens"

(***************************************************************************)
(* SpecDiff: _computeEdits applied to every pair of bounded line sequences *)
(***************************************************************************)
InitDiff ==
    /\ model \in [lines : LineSeqs]
    /\ textBuffer \in [lines : LineSeqs, eol : EOLs]
    /\ edits = <<>>
    /\ applied = <<>>
    /\ dpc = "start"
    /\ ColoringIdle
    /\ UpdateIdle
    /\ RegistryIdle
    /\ DecodeIdle
    /\ CommandIdle

\* const edits = ModelServiceImpl._computeEdits(model, textBuffer)
ComputeEdits ==
    /\ dpc = "start"
    /\ edits' = _computeEdits(model, textBuffer)
    /\ dpc' = "computed"
    /\ UNCHANGED <<model, textBuffer, applied, offDiff>>

\* the returned edits are applied to the content of the model
PushEditOperations ==
    /\ dpc = "computed"
    /\ applied' = ApplyEdits(model.lines, edits)
    /\ dpc' = "applied"
    /\ UNCHANGED <<model, textBuffer, edits, offDiff>>

NextDiff == ComputeEdits \/ PushEditOperations

SpecDiff == InitDiff /\ [][NextDiff]_vars

\* the lines a range includes: those it holds a character or the line break of
IncludedLines(r) ==
    (r.startLineNumber .. (r.endLineNumber - 1))
    \cup (IF r.endColumn > (IF r.startLineNumber = r.endLineNumber
                            THEN r.startColumn ELSE 1)
          THEN {r.endLineNumber} ELSE {})

\* A and B end with the same line
ShareCommonSuffix == model.lines[Len(model.lines)] = textBuffer.lines[Len(textBuffer.lines)]

\* C1: for every pair A (model) and B (textBuffer), replacing in A the old
\* range of each returned edit by its text gives exactly the lines of B.
C1_RoundTrip == dpc = "applied" => applied = textBuffer.lines

\* C1 witness: an edit that keeps a common prefix and a common suffix was applied
C1_Witness ==
    /\ dpc = "applied"
    /\ Len(edits) = 1
    /\ prefixOf(model, textBuffer) > 0
    /\ suffixOf(model, textBuffer) > 0
    /\ Len(model.lines) # Len(textBuffer.lines)

\* C2: _computeEdits returns the empty list iff A and B have the same number
\* of lines and all lines are pairwise identical; otherwise exactly one edit.
C2_EmptyIffEqual ==
    dpc # "start" =>
        /\ (edits = <<>>) <=> (model.lines = textBuffer.lines)
        /\ (edits # <<>>) => Len(edits) = 1

\* C2 witness: B extends A by one line, and one edit is returned
C2_Witness ==
    /\ dpc = "computed"
    /\ Len(textBuffer.lines) = Len(model.lines) + 1
    /\ SubSeq(textBuffer.lines, 1, Len(model.lines)) = model.lines
    /\ Len(edits) = 1

\* C3 as claimed: when A and B share a nonempty common suffix, neither the
\* old range nor the new range includes a line past
\* oldLineCount - commonSuffixLines.
C3_Original ==
    (dpc # "start" /\ ShareCommonSuffix /\ edits # <<>>) =>
        LET r == rangesOf(model, textBuffer)
            bound == getLineCount(model) - suffixOf(model, textBuffer)
        IN  /\ edits[1].range = r.oldRange
            /\ \A l \in IncludedLines(r.oldRange) : l <= bound
            /\ \A l \in IncludedLines(r.newRange) : l <= bound

\* C3 amended: when A and B share a nonempty common suffix, the old range
\* includes no line past oldLineCount - commonSuffixLines and the new range
\* includes no line past newLineCount - commonSuffixLines.
C3_SuffixUntouched ==
    (dpc # "start" /\ ShareCommonSuffix /\ edits # <<>>) =>
        LET r == rangesOf(model, textBuffer)
            commonSuffix == suffixOf(model, textBuffer)
        IN  /\ edits[1].range = r.oldRange
            /\ \A l \in IncludedLines(r.oldRange) : l <= getLineCount(model) - commonSuffix
            /\ \A l \in IncludedLines(r.newRange) :
                   l <= getLineCount(textBuffer) - commonSuffix

\* C3 witness: two trailing lines are common and both ranges are not empty
C3_Witness ==
    /\ dpc = "computed"
    /\ edits # <<>>
    /\ suffixOf(model, textBuffer) = 2
    /\ IncludedLines(rangesOf(model, textBuffer).oldRange) # {}
    /\ IncludedLines(rangesOf(model, textBuffer).newRange) # {}

\* the number of leading lines A and B have in common
LeadingCommon(A, B) ==
    CHOOSE k \in 0..Min(Len(A), Len(B)) :
        /\ \A i \in 1..k : A[i] = B[i]
        /\ k < Min(Len(A), Len(B)) => A[k + 1] # B[k + 1]

\* with the k leading lines removed, A and B do not end with the same line
NoCommonSuffixAfter(A, B, k) ==
    Len(A) = k \/ Len(B) = k \/ A[Len(A)] # B[Len(B)]

\* the text of b from the end of line k to the end of its last line
TextAfterLine(b, k) ==
    IF getLineCount(b) > k
    THEN <<b.eol>> \o WholeLines(b, k + 1, getLineCount(b) - 1)
         \o b.lines[getLineCount(b)]
    ELSE <<>>

\* all of b
AllText(b) == WholeLines(b, 1, getLineCount(b) - 1) \o b.lines[getLineCount(b)]

\* C23: with no common suffix after the common prefix, an edit with
\* commonPrefix > 0 replaces from the end of the last common line to the end
\* of A's last line by B's text from the end of the same line to the end of
\* B's last line; with neither prefix nor suffix the old range is A's full
\* range and the text is all of B.
C23_PrefixAndFullRanges ==
    LET A == model.lines
        B == textBuffer.lines
        k == LeadingCommon(A, B)
    IN  (dpc # "start" /\ A # B /\ NoCommonSuffixAfter(A, B, k)) =>
            /\ Len(edits) = 1
            /\ IF k > 0
               THEN /\ edits[1].range =
                           Range(k, Len(A[k]) + 1, Len(A), Len(A[Len(A)]) + 1)
                    /\ rangesOf(model, textBuffer).newRange =
                           Range(k, Len(B[k]) + 1, Len(B), Len(B[Len(B)]) + 1)
                    /\ edits[1].text = TextAfterLine(textBuffer, k)
               ELSE /\ edits[1].range = Range(1, 1, Len(A), Len(A[Len(A)]) + 1)
                    /\ edits[1].text = AllText(textBuffer)

\* C23 witness: one common leading line, then A has one more line and B two
C23_Witness ==
    /\ dpc = "computed"
    /\ LeadingCommon(model.lines, textBuffer.lines) = 1
    /\ Len(model.lines) = 2
    /\ Len(textBuffer.lines) = 3
    /\ NoCommonSuffixAfter(model.lines, textBuffer.lines, 1)
    /\ Len(edits) = 1

\* the line numbers whose content the loop of _commonPrefix or _commonSuffix
\* reads: the comparison is evaluated for i = 0..result while i < maxResult
loopIndices(maxResult, result) == 0..Min(result, maxResult - 1)

startsBeforeEnd(r) ==
    \/ r.startLineNumber < r.endLineNumber
    \/ r.startLineNumber = r.endLineNumber /\ r.startColumn <= r.endColumn

\* C28: commonPrefix + commonSuffix <= min(lineCount(A), lineCount(B)); every
\* line number read by _commonPrefix and _commonSuffix is within
\* 1..lineCount of its sequence; the old and the new range start at or
\* before their end.
C28_IndicesAndRangesInBounds ==
    dpc # "start" =>
        LET la == getLineCount(model)
            lb == getLineCount(textBuffer)
            commonPrefix == prefixOf(model, textBuffer)
            commonSuffix == suffixOf(model, textBuffer)
            sufMax == Min(la - commonPrefix, lb - commonPrefix)
        IN  /\ commonPrefix + commonSuffix <= Min(la, lb)
            /\ \A i \in loopIndices(Min(la, lb), commonPrefix) :
                   (1 + i) \in 1..la /\ (1 + i) \in 1..lb
            /\ edits # <<>> =>
                   /\ \A i \in loopIndices(sufMax, commonSuffix) :
                          /\ (commonPrefix + (la - commonPrefix) - i) \in 1..la
                          /\ (commonPrefix + (lb - commonPrefix) - i) \in 1..lb
                   /\ edits[1].range = rangesOf(model, textBuffer).oldRange
                   /\ startsBeforeEnd(rangesOf(model, textBuffer).oldRange)
                   /\ startsBeforeEnd(rangesOf(model, textBuffer).newRange)

\* C28 witness: an edit was computed for a document of one empty line
C28_Witness ==
    /\ dpc = "computed"
    /\ model.lines = << <<>> >>
    /\ Len(textBuffer.lines) = 2
    /\ Len(edits) = 1

(***************************************************************************)
(* SpecUpdate: ModelServiceImpl.updateModel on one registered document     *)
(***************************************************************************)
\* the longest document of SpecUpdate, in lines
MaxDocLines == 2

Docs == { d \in LineSeqs : Len(d) <= MaxDocLines }

\* a string value: its lines and the line terminator that separates them
Values == [lines : Docs, eol : EOLs]

\* createTextBuffer(value, defaultEOL): the terminator is the one the text
\* uses, and the default one for a text without line terminators
createTextBuffer(value, eolDefault) ==
    [lines |-> value.lines,
     eol |-> IF Len(value.lines) > 1 THEN value.eol ELSE eolDefault]

\* model.equalsTextBuffer(textBuffer): same lines in the same form
equalsTextBuffer(d, buf) == d.lines = buf.lines /\ d.eol = buf.eol

\* model.getValue(): the content as one string
getValue(d) == [lines |-> d.lines, eol |-> d.eol]

\* two string values are the same string
SameString(v, w) == v.lines = w.lines /\ (Len(v.lines) > 1 => v.eol = w.eol)

\* a document during a call: its content, whether the open edit group holds a
\* change, and what observers and the undo stack have received
Journal(d) ==
    [lines |-> d.lines, eol |-> d.eol, pending |-> FALSE, undoSteps |-> 0,
     notifications |-> 0, eolPushes |-> 0, editCount |-> 0]

\* model.pushStackElement(): closes the edit group; a group that changed the
\* document is one undo step and one content-change notification
pushStackElement(j) ==
    IF j.pending
    THEN [j EXCEPT !.pending = FALSE, !.undoSteps = @ + 1, !.notifications = @ + 1]
    ELSE j

\* mutant: an end-of-line change is recorded whatever the current one is
pushEOL_always(j, eol) ==
    [j EXCEPT !.eol = eol, !.pending = TRUE, !.eolPushes = @ + 1]

\* model.pushEOL(eol): an end-of-line change, if eol is not the current one
pushEOL(j, eol) ==
    IF j.eol = eol THEN j
    ELSE [j EXCEPT !.eol = eol, !.pending = TRUE, !.eolPushes = @ + 1]

\* model.pushEditOperations([], ops, ...)
pushEditOperations(j, ops) ==
    IF ops = <<>> THEN j
    ELSE [j EXCEPT !.lines = ApplyEdits(j.lines, ops), !.pending = TRUE,
                   !.editCount = @ + Len(ops)]

Call(op, eol, ops) == [op |-> op, eol |-> eol, edits |-> ops]

\* mutant: the edit group is closed between the end-of-line change and the edits
updateModelOps_splitGroup(m, tb) ==
    << Call("pushStackElement", tb.eol, <<>>),
       Call("pushEOL", tb.eol, <<>>),
       Call("pushStackElement", tb.eol, <<>>),
       Call("pushEditOperations", tb.eol, _computeEdits(m, tb)),
       Call("pushStackElement", tb.eol, <<>>) >>

\* the calls of updateModel after its early return
updateModelOps(m, tb) ==
    << Call("pushStackElement", tb.eol, <<>>),
       Call("pushEOL", tb.eol, <<>>),
       Call("pushEditOperations", tb.eol, _computeEdits(m, tb)),
       Call("pushStackElement", tb.eol, <<>>) >>

RECURSIVE RunOps(_, _)
RunOps(j, ops) ==
    IF ops = <<>> THEN j
    ELSE LET c == Head(ops)
             next == IF c.op = "pushStackElement" THEN pushStackElement(j)
                     ELSE IF c.op = "pushEOL" THEN pushEOL(j, c.eol)
                     ELSE pushEditOperations(j, c.edits)
         IN  RunOps(next, Tail(ops))

\* ModelServiceImpl.updateModel(model, value)
updateModel(d, value, eolDefault) ==
    LET tb == createTextBuffer(value, eolDefault)
    IN  IF equalsTextBuffer(d, tb)
        THEN Journal(d)
        ELSE RunOps(Journal(d), updateModelOps(d, tb))

UQuiet == [op |-> "init", same |-> FALSE, changed |-> FALSE, notifications |-> 0,
           undoSteps |-> 0, eolPushes |-> 0, eolDiffered |-> FALSE, edits |-> 0,
           reached |-> TRUE]

\* a document created from a value with the creation options of its language
InitUpdate ==
    /\ defaultEOL \in EOLs
    /\ \E value \in Values : doc = createTextBuffer(value, defaultEOL)
    /\ ulast = UQuiet
    /\ DiffIdle
    /\ ColoringIdle
    /\ RegistryIdle
    /\ DecodeIdle
    /\ CommandIdle

UpdateModel ==
    \E value \in Values :
        LET j == updateModel(doc, value, defaultEOL)
            after == [lines |-> j.lines, eol |-> j.eol]
        IN  /\ doc' = after
            /\ ulast' = [op |-> "updateModel",
                         same |-> SameString(value, getValue(doc)),
                         changed |-> after # doc,
                         notifications |-> j.notifications,
                         undoSteps |-> j.undoSteps,
                         eolPushes |-> j.eolPushes,
                         eolDiffered |->
                             createTextBuffer(value, defaultEOL).eol # doc.eol,
                         edits |-> j.editCount,
                         reached |-> after = createTextBuffer(value, defaultEOL)]
            /\ UNCHANGED <<defaultEOL, offUpdate>>

\* the user edits the document: its lines change, its end of line stays
EditContent ==
    \E l \in Docs :
        /\ l # doc.lines
        /\ doc' = [doc EXCEPT !.lines = l]
        /\ ulast' = [UQuiet EXCEPT !.op = "edit", !.changed = TRUE]
        /\ UNCHANGED <<defaultEOL, offUpdate>>

\* the configuration changes: _updateModelOptions, _setModelOptionsForModel
OnDidChangeConfiguration ==
    \E e \in EOLs :
        /\ defaultEOL' = e
        /\ doc' = IF defaultEOL # e /\ getLineCount(doc) = 1
                  THEN [doc EXCEPT !.eol = e]
                  ELSE doc
        /\ ulast' = [UQuiet EXCEPT !.op = "configuration", !.changed = (doc' # doc)]
        /\ UNCHANGED offUpdate

NextUpdate == UpdateModel \/ EditContent \/ OnDidChangeConfiguration

SpecUpdate == InitUpdate /\ [][NextUpdate]_vars

\* C14 as claimed: updateModel(model, value) with value equal to the current
\* content of the model produces no edit and no content-change notification
\* and leaves content, end-of-line sequence and undo stack unchanged.
C14_SameValueNoOp ==
    (ulast.op = "updateModel" /\ ulast.same) =>
        /\ ulast.edits = 0
        /\ ulast.notifications = 0
        /\ ulast.undoSteps = 0
        /\ ~ulast.changed

MaxCreated == 4

\* configuration changes in one behaviour
MaxConfigurations == 2

Resources == { [scheme |-> "file", path |-> "/a"], [scheme |-> "file", path |-> "/b"] }

PLAINTEXT_LANGUAGE_IDENTIFIER == "plaintext"

Languages == { PLAINTEXT_LANGUAGE_IDENTIFIER, "typescript" }

\* no model, no language selection
null == 0

LanguageSelections == Languages \cup { "null" }

\* MODEL_ID(resource): resource.toString()
MODEL_ID(resource) == resource.scheme \o "://" \o resource.path

\* obj[key] = value and delete obj[key] on a JavaScript object
Put(obj, key, value) ==
    [k \in DOMAIN obj \cup {key} |-> IF k = key THEN value ELSE obj[k]]

Delete(obj, key) == [k \in DOMAIN obj \ {key} |-> obj[k]]

\* getCreationOptions(language, resource): the cached options for the key
\* language + resource, read from the configuration when there are none;
\* options are written as the configuration they were read from
getCreationOptions(cache, language, modelId) ==
    LET key == language \o modelId
    IN  IF key \in DOMAIN cache
        THEN [options |-> cache[key], cache |-> cache]
        ELSE [options |-> configuration, cache |-> Put(cache, key, configuration)]

\* mutant: the new model is saved before the existing one is looked up
_createModelData_saveFirst(models, modelId, m) ==
    [threw |-> modelId \in DOMAIN models, models |-> Put(models, modelId, m)]

\* _createModelData from the check of this._models[modelId] on
_createModelData(models, modelId, m) ==
    IF modelId \in DOMAIN models
    THEN [threw |-> TRUE, models |-> models]
    ELSE [threw |-> FALSE, models |-> Put(models, modelId, m)]

\* mutant: an absent model is an error
whenAbsent_throws == [threw |-> TRUE, result |-> null]

\* if (!modelData) { return; } and if (!modelData) { return null; }
whenAbsent == [threw |-> FALSE, result |-> null]

getModel(models, modelId) ==
    IF modelId \in DOMAIN models THEN models[modelId].id ELSE whenAbsent.result

getModels(models) == { models[k].id : k \in DOMAIN models }

RQuiet == [op |-> "init", modelId |-> "", found |-> FALSE, threw |-> FALSE,
           result |-> null, models |-> {}, events |-> <<>>, options |-> -1,
           hit |-> FALSE, seen |-> null]

InitRegistry ==
    /\ _models = <<>>
    /\ _modelCreationOptionsByLanguageAndResource = <<>>
    /\ configuration = 0
    /\ _watchers = {}
    /\ created = 0
    /\ rlast = RQuiet
    /\ DiffIdle
    /\ ColoringIdle
    /\ UpdateIdle
    /\ DecodeIdle
    /\ CommandIdle

\* createModel(value, languageSelection, resource)
CreateModel ==
    \E resource \in Resources : \E languageSelection \in LanguageSelections :
        LET modelId == MODEL_ID(resource)
            language == IF languageSelection = "null"
                        THEN PLAINTEXT_LANGUAGE_IDENTIFIER
                        ELSE languageSelection
            o == getCreationOptions(_modelCreationOptionsByLanguageAndResource,
                                    language, modelId)
            m == [id |-> created + 1, language |-> language]
            d == _createModelData(_models, modelId, m)
        IN  /\ created < MaxCreated
            /\ created' = created + 1
            /\ _modelCreationOptionsByLanguageAndResource' = o.cache
            /\ _models' = d.models
            /\ _watchers' = IF d.threw THEN _watchers ELSE _watchers \cup {modelId}
            /\ rlast' = [RQuiet EXCEPT
                           !.op = "createModel", !.modelId = modelId,
                           !.found = modelId \in DOMAIN _models,
                           !.threw = d.threw,
                           !.result = IF d.threw THEN null ELSE m.id,
                           !.options = o.options,
                           !.events = IF d.threw THEN <<>> ELSE <<"onModelAdded">>]
            /\ UNCHANGED <<configuration, offRegistry>>

\* mutant: onModelRemoved fires before the model is deleted from _models
modelsWhenRemovedFires_before(models, modelId) == models

\* _onWillDispose: this._models when this._onModelRemoved.fire(model) runs
modelsWhenRemovedFires(models, modelId) == Delete(models, modelId)

\* model.dispose() of a registered model: _onWillDispose and the
\* onModelRemoved listener of SemanticColoringFeature
WillDispose(op, modelId) ==
    /\ _models' = Delete(_models, modelId)
    /\ _modelCreationOptionsByLanguageAndResource' =
           Delete(_modelCreationOptionsByLanguageAndResource,
                  _models[modelId].language \o modelId)
    /\ _watchers' = _watchers \ {modelId}
    /\ rlast' = [RQuiet EXCEPT !.op = op, !.modelId = modelId, !.found = TRUE,
                               !.events = <<"onModelRemoved">>,
                               !.seen = getModel(modelsWhenRemovedFires(_models, modelId),
                                                 modelId)]

Absent(op, modelId) ==
    /\ rlast' = [RQuiet EXCEPT !.op = op, !.modelId = modelId,
                               !.threw = whenAbsent.threw,
                               !.result = whenAbsent.result]
    /\ UNCHANGED <<_models, _modelCreationOptionsByLanguageAndResource, _watchers>>

\* destroyModel(resource)
DestroyModel ==
    \E resource \in Resources :
        /\ IF MODEL_ID(resource) \in DOMAIN _models
           THEN WillDispose("destroyModel", MODEL_ID(resource))
           ELSE Absent("destroyModel", MODEL_ID(resource))
        /\ UNCHANGED <<configuration, created, offRegistry>>

\* a registered model is disposed by its owner, not through the service
DisposeModel ==
    \E resource \in Resources :
        /\ MODEL_ID(resource) \in DOMAIN _models
        /\ WillDispose("model.dispose", MODEL_ID(resource))
        /\ UNCHANGED <<configuration, created, offRegistry>>

\* setMode(model, languageSelection) for a model with this resource; a model
\* whose language changes runs _onDidChangeLanguage
SetMode ==
    \E resource \in Resources : \E languageSelection \in LanguageSelections :
        LET modelId == MODEL_ID(resource)
        IN  /\ IF languageSelection = "null"
               THEN /\ rlast' = [RQuiet EXCEPT !.op = "setMode(null)",
                                               !.modelId = modelId,
                                               !.found = modelId \in DOMAIN _models]
                    /\ UNCHANGED <<_models, _modelCreationOptionsByLanguageAndResource>>
               ELSE IF modelId \notin DOMAIN _models
               THEN /\ rlast' = [RQuiet EXCEPT !.op = "setMode", !.modelId = modelId,
                                               !.threw = whenAbsent.threw,
                                               !.result = whenAbsent.result]
                    /\ UNCHANGED <<_models, _modelCreationOptionsByLanguageAndResource>>
               ELSE IF _models[modelId].language = languageSelection
               THEN /\ rlast' = [RQuiet EXCEPT !.op = "setMode", !.modelId = modelId,
                                               !.found = TRUE]
                    /\ UNCHANGED <<_models, _modelCreationOptionsByLanguageAndResource>>
               ELSE LET old == getCreationOptions(
                                   _modelCreationOptionsByLanguageAndResource,
                                   _models[modelId].language, modelId)
                        new == getCreationOptions(old.cache, languageSelection, modelId)
                    IN  /\ _models' = [_models EXCEPT
                                          ![modelId].language = languageSelection]
                        /\ _modelCreationOptionsByLanguageAndResource' = new.cache
                        /\ rlast' = [RQuiet EXCEPT
                                       !.op = "setMode", !.modelId = modelId,
                                       !.found = TRUE,
                                       !.options = new.options,
                                       !.events = <<"onModelModeChanged">>]
            /\ UNCHANGED <<configuration, _watchers, created, offRegistry>>

\* getModel(resource)
GetModel ==
    \E resource \in Resources :
        /\ rlast' = [RQuiet EXCEPT
                       !.op = "getModel", !.modelId = MODEL_ID(resource),
                       !.found = MODEL_ID(resource) \in DOMAIN _models,
                       !.threw = IF MODEL_ID(resource) \in DOMAIN _models
                                 THEN FALSE ELSE whenAbsent.threw,
                       !.result = getModel(_models, MODEL_ID(resource))]
        /\ UNCHANGED <<_models, _modelCreationOptionsByLanguageAndResource,
                       configuration, _watchers, created, offRegistry>>

\* getModels()
GetModels ==
    /\ rlast' = [RQuiet EXCEPT !.op = "getModels", !.models = getModels(_models)]
    /\ UNCHANGED <<_models, _modelCreationOptionsByLanguageAndResource,
                   configuration, _watchers, created, offRegistry>>

\* getCreationOptions(language, resource, isForSimpleWidget), called from
\* outside the service
GetCreationOptions ==
    \E resource \in Resources : \E language \in Languages :
        LET modelId == MODEL_ID(resource)
            o == getCreationOptions(_modelCreationOptionsByLanguageAndResource,
                                    language, modelId)
        IN  /\ _modelCreationOptionsByLanguageAndResource' = o.cache
            /\ rlast' = [RQuiet EXCEPT
                           !.op = "getCreationOptions", !.modelId = modelId,
                           !.found = modelId \in DOMAIN _models,
                           !.options = o.options,
                           !.hit = (language \o modelId) \in
                                       DOMAIN _modelCreationOptionsByLanguageAndResource]
            /\ UNCHANGED <<_models, configuration, _watchers, created, offRegistry>>

\* mutant: the entries of the old cache stay
resetCache_kept(cache) == cache

\* this._modelCreationOptionsByLanguageAndResource = Object.create(null)
resetCache(cache) == <<>>

\* the configuration changes: _updateModelOptions drops the cache and reads
\* the options of every registered model again
UpdateModelOptions ==
    /\ configuration < MaxConfigurations
    /\ configuration' = configuration + 1
    /\ _modelCreationOptionsByLanguageAndResource' =
           LET start == resetCache(_modelCreationOptionsByLanguageAndResource)
               keys == { _models[k].language \o k : k \in DOMAIN _models }
           IN  [key \in DOMAIN start \cup keys |->
                   IF key \in DOMAIN start THEN start[key] ELSE configuration + 1]
    /\ rlast' = [RQuiet EXCEPT !.op = "onDidChangeConfiguration"]
    /\ UNCHANGED <<_models, _watchers, created, offRegistry>>

NextRegistry ==
    \/ CreateModel
    \/ DestroyModel
    \/ DisposeModel
    \/ SetMode
    \/ GetModel
    \/ GetModels
    \/ GetCreationOptions
    \/ UpdateModelOptions

SpecRegistry == InitRegistry /\ [][NextRegistry]_vars

\* C16: creating a model whose resource is already registered raises an
\* error and leaves the registry as it was: the existing model stays
\* registered, no onModelAdded is fired, no watcher is created, and getModel
\* and getModels show what they showed before.
C16_DuplicateCreateRejected ==
    [][ (rlast'.op = "createModel" /\ rlast'.modelId \in DOMAIN _models) =>
            /\ rlast'.threw
            /\ rlast'.events = <<>>
            /\ _models' = _models
            /\ _watchers' = _watchers
            /\ getModel(_models', rlast'.modelId) = getModel(_models, rlast'.modelId)
            /\ getModels(_models') = getModels(_models) ]_vars

\* C16 witness: a second createModel for a registered resource has thrown
C16_Witness ==
    /\ rlast.op = "createModel"
    /\ rlast.found
    /\ rlast.threw
    /\ rlast.modelId \in DOMAIN _models
    /\ _models[rlast.modelId].id < created

\* C17: getModel on a resource without a model returns null, destroyModel
\* and setMode on it do nothing; none of them raises an error, changes the
\* registry or fires an event.
C17_AbsentIsNotAnError ==
    [][ (rlast'.op \in {"getModel", "destroyModel", "setMode"}
            /\ rlast'.modelId \notin DOMAIN _models) =>
            /\ ~rlast'.threw
            /\ rlast'.result = null
            /\ rlast'.events = <<>>
            /\ UNCHANGED <<_models, _modelCreationOptionsByLanguageAndResource,
                           configuration, _watchers, created>> ]_vars

\* C17 witness: destroyModel on an absent resource while another is registered
C17_Witness ==
    /\ rlast.op = "destroyModel"
    /\ ~rlast.found
    /\ rlast.modelId \notin DOMAIN _models
    /\ _models # <<>>

\* C22: after a configuration change every getCreationOptions call returns
\* options read from the configuration current at or after that change; the
\* cache holds no entry populated before it.
C22_NoStaleOptions ==
    /\ \A key \in DOMAIN _modelCreationOptionsByLanguageAndResource :
           _modelCreationOptionsByLanguageAndResource[key] = configuration
    /\ rlast.op \in {"getCreationOptions", "createModel"} =>
           rlast.options = configuration
    /\ (rlast.op = "setMode" /\ rlast.events # <<>>) => rlast.options = configuration

\* C22 witness: after a configuration change a lookup for a registered model
\* was answered from the cache
C22_Witness ==
    /\ rlast.op = "getCreationOptions"
    /\ rlast.hit
    /\ rlast.found
    /\ configuration >= 1
    /\ rlast.options = configuration

\* C29: the resources with a watcher are the registered resources; a
\* successful createModel fires onModelAdded once and a failed one does not;
\* a disposal fires onModelRemoved once, after the model has left the
\* registry, and removes its watcher.
C29_WatchersMatchRegistry ==
    /\ _watchers = DOMAIN _models
    /\ rlast.op = "createModel" =>
           rlast.events = (IF rlast.threw THEN <<>> ELSE <<"onModelAdded">>)
    /\ (rlast.op \in {"destroyModel", "model.dispose"} /\ rlast.found) =>
           /\ rlast.events = <<"onModelRemoved">>
           /\ rlast.seen = null
           /\ rlast.modelId \notin DOMAIN _models
           /\ rlast.modelId \notin _watchers

\* C29 witness: a model was disposed directly while another stays registered
C29_Witness ==
    /\ rlast.op = "model.dispose"
    /\ rlast.events = <<"onModelRemoved">>
    /\ Cardinality(_watchers) = 1
    /\ Cardinality(DOMAIN _models) = 1

(***************************************************************************)
(* SpecDecode: ModelSemanticColoring._setSemanticTokens with a response,   *)
(* on a scheduler that is not disposed                                     *)
(***************************************************************************)
\* areas of one response, and 5-field tuples of one area
MaxAreas == 2

MaxTokens == 2

\* the width of an element of a Uint32Array and of the operands of & and >>
WordBits == 32

\* what getTokenStyleMetadata returns for a style the theme does not resolve
undefined == -1

\* A modifier bitset is written as the set of the positions of its one-bits.
\* The raw tuples: (deltaLine, startCharacter, endCharacter, tokenTypeIndex,
\* tokenModifierSet)
RawTuples ==
    { <<0, 0, 5, 0, {}>>,
      <<1, 2, 4, 1, {0, 1}>>,
      <<0, 6, 9, 2, {1}>>,
      <<2, 0, 3, 0, {0, WordBits - 1}>> }

RECURSIVE Concat(_)
Concat(ss) == IF ss = <<>> THEN <<>> ELSE Head(ss) \o Concat(Tail(ss))

\* area.data: the tuples of an area, flat
RawData == UNION { { Concat(ts) : ts \in [1..n -> RawTuples] } : n \in 0..MaxTokens }

RawAreas ==
    UNION { { [a \in 1..n |-> [line |-> 10 * a - 9, data |-> ds[a]]] :
                ds \in [1..n -> RawData] } : n \in 0..MaxAreas }

\* a legend with more modifier names than a bitset has bits
LongModifiers ==
    [i \in 1..(WordBits + 1) |->
        IF i < WordBits THEN "readonly"
        ELSE IF i = WordBits THEN "deprecated" ELSE "static"]

Legends ==
    { [tokenTypes |-> <<"comment">>, tokenModifiers |-> <<>>],
      [tokenTypes |-> <<"comment", "keyword">>, tokenModifiers |-> <<"readonly">>],
      [tokenTypes |-> <<"comment", "keyword">>,
       tokenModifiers |-> <<"readonly", "static">>],
      [tokenTypes |-> <<"comment", "keyword">>, tokenModifiers |-> LongModifiers] }

\* a theme: the metadata of the token types it styles, and a modifier for
\* which it resolves no style
Themes ==
    { [styles |-> ("comment" :> 8 @@ "keyword" :> 16), hidden |-> ""],
      [styles |-> ("comment" :> 8), hidden |-> "static"] }

\* the content changes of the change events seen during the fetch
PendingChanges ==
    { <<>>, << <<"e1">> >>, << <<"e1", "e2">>, <<"e3">> >> }

\* theme.getTokenStyleMetadata(tokenType, tokenModifiers)
getTokenStyleMetadata(th, tokenType, tokenModifiers) ==
    IF /\ tokenType \in DOMAIN th.styles
       /\ \A k \in 1..Len(tokenModifiers) : tokenModifiers[k] # th.hidden
    THEN th.styles[tokenType] + Len(tokenModifiers)
    ELSE undefined

\* legend.tokenTypes[tokenTypeIndex]
tokenTypeAt(lg, tokenTypeIndex) ==
    IF tokenTypeIndex < Len(lg.tokenTypes)
    THEN lg.tokenTypes[tokenTypeIndex + 1]
    ELSE "undefined"

\* tokenModifierSet & 1
lowBit(tokenModifierSet) == 0 \in tokenModifierSet

\* tokenModifierSet >> 1: the sign-propagating shift of a 32-bit value
shiftRight(tokenModifierSet) ==
    { i - 1 : i \in tokenModifierSet \ {0} }
        \cup (IF (WordBits - 1) \in tokenModifierSet THEN {WordBits - 1} ELSE {})

\* the loop over modifierIndex
RECURSIVE ModifierLoop(_, _, _, _)
ModifierLoop(tokenModifierSet, modifierIndex, lg, tokenModifiers) ==
    IF tokenModifierSet # {} /\ modifierIndex < Len(lg.tokenModifiers)
    THEN ModifierLoop(shiftRight(tokenModifierSet), modifierIndex + 1, lg,
                      IF lowBit(tokenModifierSet)
                      THEN Append(tokenModifiers, lg.tokenModifiers[modifierIndex + 1])
                      ELSE tokenModifiers)
    ELSE tokenModifiers

\* mutant: the array keeps its allocated length
subarray_whole(destTokens, destOffset) == destTokens

\* if (destOffset !== destTokens.length) destTokens.subarray(0, destOffset)
subarray(destTokens, destOffset) ==
    IF destOffset # Len(destTokens) THEN SubSeq(destTokens, 1, destOffset)
    ELSE destTokens

\* the loop over the tuples of one area: d is [destTokens, destOffset, calls]
RECURSIVE TokenLoop(_, _, _, _, _)
TokenLoop(srcTokens, i, lg, th, d) ==
    IF i < Len(srcTokens) \div 5
    THEN LET srcOffset == 5 * i
             deltaLine == srcTokens[srcOffset + 1]
             startCharacter == srcTokens[srcOffset + 2]
             endCharacter == srcTokens[srcOffset + 3]
             tokenType == tokenTypeAt(lg, srcTokens[srcOffset + 4])
             tokenModifiers == ModifierLoop(srcTokens[srcOffset + 5], 0, lg, <<>>)
             metadata == getTokenStyleMetadata(th, tokenType, tokenModifiers)
             call == [tokenType |-> tokenType, tokenModifiers |-> tokenModifiers,
                      metadata |-> metadata]
         IN  TokenLoop(srcTokens, i + 1, lg, th,
                 IF metadata # undefined
                 THEN [destTokens |->
                           [d.destTokens EXCEPT ![d.destOffset + 1] = deltaLine,
                                                ![d.destOffset + 2] = startCharacter,
                                                ![d.destOffset + 3] = endCharacter,
                                                ![d.destOffset + 4] = metadata],
                       destOffset |-> d.destOffset + 4,
                       calls |-> Append(d.calls, call)]
                 ELSE [d EXCEPT !.calls = Append(@, call)])
    ELSE d

\* one round of the loop over tokens.areas: new MultilineTokens2(area.line, ...)
decodeArea(area, lg, th) ==
    LET tokenCount == Len(area.data) \div 5
        d == TokenLoop(area.data, 0, lg, th,
                       [destTokens |-> [k \in 1..(4 * tokenCount) |-> 0],
                        destOffset |-> 0, calls |-> <<>>])
    IN  [line |-> area.line, tokens |-> subarray(d.destTokens, d.destOffset),
         calls |-> d.calls]

\* mutant: the changes of one change event are applied last to first
changeCalls_lastFirst(change, n) ==
    Concat([a \in 1..n |->
        [k \in 1..Len(change) |->
            [call |-> "applyEdit", area |-> a, edit |-> change[Len(change) + 1 - k]]]])

\* for (const area of result) for (const singleChange of change.changes)
changeCalls(change, n) ==
    Concat([a \in 1..n |->
        [k \in 1..Len(change) |->
            [call |-> "applyEdit", area |-> a, edit |-> change[k]]]])

\* for (const change of pendingChanges): the calls of area.applyEdit in order
applyEditCalls(pendingChanges, n) ==
    Concat([c \in 1..Len(pendingChanges) |-> changeCalls(pendingChanges[c], n)])

\* the edits one area has received, in order
editsOf(calls, a) ==
    LET mine == SelectSeq(calls, LAMBDA x : x.area = a)
    IN  [k \in 1..Len(mine) |-> mine[k].edit]

Marker(call) == [call |-> call, area |-> 0, edit |-> ""]

\* _setSemanticTokens(tokens, legend, pendingChanges) from line 544 on
_setSemanticTokens(areas, lg, th, pendingChanges) ==
    LET result == [a \in 1..Len(areas) |-> decodeArea(areas[a], lg, th)]
        calls == IF Len(pendingChanges) > 0
                 THEN applyEditCalls(pendingChanges, Len(result))
                 ELSE <<>>
    IN  [step |-> "done",
         written |-> [a \in 1..Len(result) |->
                         [line |-> result[a].line, tokens |-> result[a].tokens,
                          edits |-> editsOf(calls, a)]],
         calls |-> [a \in 1..Len(result) |-> result[a].calls],
         log |-> calls
                 \o (IF Len(pendingChanges) > 0 THEN <<Marker("schedule")>> ELSE <<>>)
                 \o <<Marker("setSemanticTokens")>>,
         scheduled |-> Len(pendingChanges) > 0]

InitDecode ==
    /\ legend \in Legends
    /\ theme \in Themes
    /\ srcAreas \in RawAreas
    /\ changesSeen \in PendingChanges
    /\ out = [step |-> "start", written |-> <<>>, calls |-> <<>>, log |-> <<>>,
              scheduled |-> FALSE]
    /\ DiffIdle
    /\ ColoringIdle
    /\ UpdateIdle
    /\ RegistryIdle
    /\ CommandIdle

\* the provider's promise resolves with tokens
SetSemanticTokens ==
    /\ out.step = "start"
    /\ out' = _setSemanticTokens(srcAreas, legend, theme, changesSeen)
    /\ UNCHANGED <<legend, theme, srcAreas, changesSeen, offDecode>>

NextDecode == SetSemanticTokens

SpecDecode == InitDecode /\ [][NextDecode]_vars

\* the source tuple i (from 0) of an area
tupleAt(area, i) == SubSeq(area.data, 5 * i + 1, 5 * i + 5)

\* the 4-field tuples of the source tuples of area a that the theme resolved,
\* in source order
keptTuples(a) ==
    LET n == Len(srcAreas[a].data) \div 5
        kept == SelectSeq([i \in 1..n |-> i],
                          LAMBDA i : out.calls[a][i].metadata # undefined)
    IN  Concat([k \in 1..Len(kept) |->
            LET t == tupleAt(srcAreas[a], kept[k] - 1)
            IN  <<t[1], t[2], t[3], out.calls[a][kept[k]].metadata>>])

\* C18: each raw area decodes to one 4-field tuple per source tuple whose
\* style the theme resolves, in source order and without holes: the length is
\* 4 times the number of resolved tuples, and 0 when none resolves.
C18_DecodedIsCompactedKept ==
    out.step = "done" =>
        /\ Len(out.written) = Len(srcAreas)
        /\ \A a \in 1..Len(srcAreas) :
            /\ out.written[a].line = srcAreas[a].line
            /\ Len(out.calls[a]) = Len(srcAreas[a].data) \div 5
            /\ out.written[a].tokens = keptTuples(a)
            /\ Len(out.written[a].tokens) =
                   4 * Cardinality({ i \in 1..Len(out.calls[a]) :
                                       out.calls[a][i].metadata # undefined })

\* C18 witness: an area whose first tuple is dropped and whose second is kept
C18_Witness ==
    /\ out.step = "done"
    /\ Len(srcAreas) >= 1
    /\ Len(srcAreas[1].data) = 10
    /\ out.calls[1][1].metadata = undefined
    /\ out.calls[1][2].metadata # undefined
    /\ Len(out.written[1].tokens) = 4

\* the legend's modifier names at the positions below its length whose bit is
\* set, in ascending position order
namesOfSetBits(tokenModifierSet, lg) ==
    LET positions == SelectSeq([p \in 1..Len(lg.tokenModifiers) |-> p - 1],
                               LAMBDA p : p \in tokenModifierSet)
    IN  [k \in 1..Len(positions) |-> lg.tokenModifiers[positions[k] + 1]]

\* C19 as claimed: for every modifier bitset and legend, the modifier names
\* passed to the theme resolver are exactly the legend's names at the positions
\* below its length whose bit is set, in ascending order, and the type name is
\* the legend entry at the tuple's type index.
C19_ModifiersAreTheSetBits ==
    out.step = "done" =>
        \A a \in 1..Len(srcAreas) : \A i \in 1..Len(out.calls[a]) :
            LET t == tupleAt(srcAreas[a], i - 1)
            IN  /\ out.calls[a][i].tokenModifiers = namesOfSetBits(t[5], legend)
                /\ t[4] < Len(legend.tokenTypes) =>
                       out.calls[a][i].tokenType = legend.tokenTypes[t[4] + 1]

\* C20: when edits were accumulated during the fetch, every decoded area has
\* every accumulated edit applied to it in the order the edits were observed,
\* all of it before the areas are written to the document, and a refetch is
\* scheduled.
C20_EditsAppliedInOrderThenWritten ==
    (out.step = "done" /\ changesSeen # <<>>) =>
        /\ \A a \in 1..Len(out.written) : out.written[a].edits = Concat(changesSeen)
        /\ out.scheduled
        /\ out.log[Len(out.log)].call = "setSemanticTokens"
        /\ out.log[Len(out.log) - 1].call = "schedule"
        /\ \A k \in 1..(Len(out.log) - 2) : out.log[k].call = "applyEdit"
        /\ Len(out.log) = 2 + Len(out.written) * Len(Concat(changesSeen))

\* C20 witness: two change events, the first with two changes, two areas
C20_Witness ==
    /\ out.step = "done"
    /\ Len(changesSeen) = 2
    /\ Len(changesSeen[1]) = 2
    /\ Len(out.written) = 2
    /\ out.written[2].edits = <<"e1", "e2", "e3">>
    /\ out.scheduled

(***************************************************************************)
(* SpecCommand: EditorCommand.runCommand                                   *)
(***************************************************************************)
\* the code editors that exist
MaxEditors == 2

Editors == 1..MaxEditors

\* getFocusedCodeEditor() and getActiveCodeEditor() return an editor or null
EditorOrNull == Editors \cup {0}

\* codeEditorService.getFocusedCodeEditor() || codeEditorService.getActiveCodeEditor()
editorOf(focused, active) == IF focused # 0 THEN focused ELSE active

\* mutant: the precondition is not looked at
preconditionHolds_always(editor) == TRUE

\* kbService.contextMatchesRules(withNullAsUndefined(this.precondition)), with
\* the context key service of the editor
preconditionHolds(editor) == contextMatches[editor]

CQuiet == [op |-> "init", ran |-> 0, editor |-> 0, threw |-> FALSE,
           returned |-> "undefined"]

InitCommand ==
    /\ focusedCodeEditor \in EditorOrNull
    /\ activeCodeEditor \in EditorOrNull
    /\ contextMatches \in [Editors -> BOOLEAN]
    /\ clast = CQuiet
    /\ DiffIdle
    /\ ColoringIdle
    /\ UpdateIdle
    /\ RegistryIdle
    /\ DecodeIdle

\* EditorCommand.runCommand(accessor, args)
RunCommand ==
    LET editor == editorOf(focusedCodeEditor, activeCodeEditor)
    IN  /\ clast' =
               IF editor = 0
               THEN [CQuiet EXCEPT !.op = "runCommand"]
               ELSE IF ~preconditionHolds(editor)
               THEN [CQuiet EXCEPT !.op = "runCommand", !.editor = editor]
               ELSE [CQuiet EXCEPT !.op = "runCommand", !.editor = editor,
                                   !.ran = 1, !.returned = "runEditorCommand"]
        /\ UNCHANGED <<focusedCodeEditor, activeCodeEditor, contextMatches, offCommand>>

\* an editor gains or loses text focus
FocusChange ==
    /\ \E e \in EditorOrNull : e # focusedCodeEditor /\ focusedCodeEditor' = e
    /\ clast' = [CQuiet EXCEPT !.op = "focus"]
    /\ UNCHANGED <<activeCodeEditor, contextMatches, offCommand>>

\* another editor, or none, becomes the active one
ActiveChange ==
    /\ \E e \in EditorOrNull : e # activeCodeEditor /\ activeCodeEditor' = e
    /\ clast' = [CQuiet EXCEPT !.op = "active"]
    /\ UNCHANGED <<focusedCodeEditor, contextMatches, offCommand>>

\* a context key of an editor changes
ContextChange ==
    /\ \E e \in Editors : contextMatches' = [contextMatches EXCEPT ![e] = ~@]
    /\ clast' = [CQuiet EXCEPT !.op = "context"]
    /\ UNCHANGED <<focusedCodeEditor, activeCodeEditor, offCommand>>

NextCommand == RunCommand \/ FocusChange \/ ActiveChange \/ ContextChange

SpecCommand == InitCommand /\ [][NextCommand]_vars

\* C30: runCommand calls runEditorCommand, once and on the focused or else
\* the active editor, exactly when such an editor exists and the command's
\* precondition matches that editor's context; otherwise it returns undefined
\* without running the command, and it raises no error of its own.
C30_RunsOnlyWithEditorAndPrecondition ==
    clast.op = "runCommand" =>
        LET editor == IF focusedCodeEditor # 0 THEN focusedCodeEditor
                      ELSE activeCodeEditor
        IN  /\ ~clast.threw
            /\ clast.ran <= 1
            /\ clast.ran = 1 <=> (editor # 0 /\ contextMatches[editor])
            /\ clast.ran = 1 => clast.editor = editor
            /\ clast.ran = 0 => clast.returned = "undefined"

\* C30 witness: the focused editor's context does not match, the active
\* editor's does, and the command was not run
C30_Witness ==
    /\ clast.op = "runCommand"
    /\ clast.ran = 0
    /\ focusedCodeEditor # 0
    /\ activeCodeEditor # 0
    /\ activeCodeEditor # focusedCodeEditor
    /\ ~contextMatches[focusedCodeEditor]
    /\ contextMatches[activeCodeEditor]

=============================================================================
